---- MODULE Spec2Model ----
(***************************************************************************)
(* Tic-Tac-Toe (src/app.js): the game state held in the closure (board,    *)
(* currentPlayer, gameOver, focusedIndex), the two text outputs            *)
(* (statusText, liveRegion), the per-cell DOM state the code writes        *)
(* (disabled, "win" class) and the three event handlers (cell click,       *)
(* keydown, restart click).  JavaScript is single-threaded and every       *)
(* handler runs to completion, so one action is one complete handler.      *)
(***************************************************************************)
EXTENDS Integers, Sequences, FiniteSets, TLC

VARIABLES
    board,          \* app.js:15   0..8 -> "X" | "O" | Null
    currentPlayer,  \* app.js:16
    gameOver,       \* app.js:17
    focusedIndex,   \* app.js:20
    statusText,     \* statusTextEl.textContent
    liveRegion,     \* liveRegionEl.textContent
    disabled,       \* cells[i].disabled
    winCells,       \* the cells carrying the class "win"
    nMoves,         \* history: number of times line 147 ran since the last restart
    played,         \* history: the indices placed since the last restart, while a Script prefix
    lastEvent       \* history: the handler that ran last

vars == <<board, currentPlayer, gameOver, focusedIndex, statusText, liveRegion,
          disabled, winCells, nMoves, played, lastEvent>>

\* ---------------------------------------------------------------- values

Null == "null"              \* JavaScript null
Undefined == "undefined"    \* what an out-of-range array read gives
Marks == {"X", "O"}
Cells == 0..8

\* How far outside 0..8 a direct call of attemptMove is tried.
MaxOutside == 1
OutsideIndices == ((0 - MaxOutside)..(8 + MaxOutside)) \ Cells

\* The winning lines listed with the diagonals first.
WIN_LINES_DiagFirst ==
    << <<0, 4, 8>>, <<2, 4, 6>>,
       <<0, 1, 2>>, <<3, 4, 5>>, <<6, 7, 8>>,
       <<0, 3, 6>>, <<1, 4, 7>>, <<2, 5, 8>> >>

WIN_LINES ==
    << <<0, 1, 2>>, <<3, 4, 5>>, <<6, 7, 8>>,
       <<0, 3, 6>>, <<1, 4, 7>>, <<2, 5, 8>>,
       <<0, 4, 8>>, <<2, 4, 6>> >>

ArrowKeys == {"ArrowUp", "ArrowDown", "ArrowLeft", "ArrowRight"}
PlaceKeys == {"Enter", " "}
Keys == ArrowKeys \cup PlaceKeys \cup {"Tab"}

MsgTaken == "That cell is already taken."
MsgGameOver == "Game over. Press Restart / New Game to play again."
MsgNewGame == "New game started. Turn: X"
MsgPlaced(p) == "Move placed. Turn: " \o p
WinsText(p) == p \o " wins!"
TurnText(p) == "Turn: " \o p
DrawText == "Draw!"

\* The move sequences followed by the history variable played.
DrawScript == <<0, 1, 2, 3, 5, 6, 4, 7, 8>>
WinScript == <<0, 4, 1, 2, 3>>
Scripts == {DrawScript, WinScript}
Off == <<9>>
IsScriptPrefix(q) == \E s \in Scripts : Len(q) <= Len(s) /\ SubSeq(s, 1, Len(q)) = q

\* ---------------------------------------------------------------- helpers

\* A read outside the array taken for an empty cell.
BoardRead_Padded(b, index) == IF index \in Cells THEN b[index] ELSE Null

\* board[index] as JavaScript reads it: undefined outside the array.
BoardRead(b, index) == IF index \in Cells THEN b[index] ELSE Undefined

\* JavaScript truthiness of a cell value.
Truthy(v) == v # Null /\ v # Undefined

EmptyBoard == [i \in Cells |-> Null]

\* The line test without the comparison with the third cell.
LineWon_TwoCells(b, k) ==
    LET a == WIN_LINES[k][1]
        bb == WIN_LINES[k][2]
    IN  Truthy(b[a]) /\ b[a] = b[bb]

\* The line test of getWinner's loop body.
LineWon(b, k) ==
    LET a == WIN_LINES[k][1]
        bb == WIN_LINES[k][2]
        c == WIN_LINES[k][3]
    IN  Truthy(b[a]) /\ b[a] = b[bb] /\ b[a] = b[c]

\* getWinner's null result, as a record so that it compares with a winner.
NoWinner == [player |-> Null, line |-> <<>>]

\* The loop of getWinner from line k on: the first satisfied line, or null.
RECURSIVE getWinnerFrom(_, _)
getWinnerFrom(b, k) ==
    IF k > Len(WIN_LINES) THEN NoWinner
    ELSE IF LineWon(b, k) THEN [player |-> b[WIN_LINES[k][1]], line |-> WIN_LINES[k]]
    ELSE getWinnerFrom(b, k + 1)

\* getWinner that keeps scanning and returns the last satisfied line.
getWinner_Last(b) ==
    IF \E k \in 1..Len(WIN_LINES) : LineWon(b, k)
    THEN LET k == CHOOSE j \in 1..Len(WIN_LINES) :
                      LineWon(b, j) /\ \A h \in (j + 1)..Len(WIN_LINES) : ~LineWon(b, h)
         IN  [player |-> b[WIN_LINES[k][1]], line |-> WIN_LINES[k]]
    ELSE NoWinner

getWinner(b) == getWinnerFrom(b, 1)

\* isDraw that never reports a draw.
isDraw_Never(b) == FALSE

isDraw(b) == (\A i \in Cells : b[i] # Null) /\ getWinner(b) = NoWinner

\* setFocus: focusedIndex = index (the class and DOM focus follow it).
setFocus(s, index) == [s EXCEPT !.focusedIndex = index]

\* The closure's state as one record, and its assignment to the variables.
Cur ==
    [board |-> board, currentPlayer |-> currentPlayer, gameOver |-> gameOver,
     focusedIndex |-> focusedIndex, statusText |-> statusText,
     liveRegion |-> liveRegion, disabled |-> disabled, winCells |-> winCells,
     nMoves |-> nMoves, played |-> played]

Set(s) ==
    /\ board' = s.board
    /\ currentPlayer' = s.currentPlayer
    /\ gameOver' = s.gameOver
    /\ focusedIndex' = s.focusedIndex
    /\ statusText' = s.statusText
    /\ liveRegion' = s.liveRegion
    /\ disabled' = s.disabled
    /\ winCells' = s.winCells
    /\ nMoves' = s.nMoves
    /\ played' = s.played

\* ---------------------------------------------------------------- functions

\* render that reports a draw without ending the game.
render_DrawNotOver(s) ==
    LET d == [i \in Cells |-> s.gameOver \/ s.board[i] # Null]
        winner == getWinner(s.board)
    IN  IF winner # NoWinner
        THEN [s EXCEPT !.disabled = d,
                       !.winCells = {winner.line[1], winner.line[2], winner.line[3]},
                       !.statusText = WinsText(winner.player),
                       !.liveRegion = WinsText(winner.player),
                       !.gameOver = TRUE]
        ELSE IF isDraw(s.board)
        THEN [s EXCEPT !.disabled = d, !.winCells = {},
                       !.statusText = DrawText, !.liveRegion = DrawText]
        ELSE [s EXCEPT !.disabled = d, !.winCells = {},
                       !.statusText = TurnText(s.currentPlayer)]

\* render that reports a win without ending the game.
render_WinNotOver(s) ==
    LET d == [i \in Cells |-> s.gameOver \/ s.board[i] # Null]
        winner == getWinner(s.board)
    IN  IF winner # NoWinner
        THEN [s EXCEPT !.disabled = d,
                       !.winCells = {winner.line[1], winner.line[2], winner.line[3]},
                       !.statusText = WinsText(winner.player),
                       !.liveRegion = WinsText(winner.player)]
        ELSE IF isDraw(s.board)
        THEN [s EXCEPT !.disabled = d, !.winCells = {},
                       !.statusText = DrawText, !.liveRegion = DrawText,
                       !.gameOver = TRUE]
        ELSE [s EXCEPT !.disabled = d, !.winCells = {},
                       !.statusText = TurnText(s.currentPlayer)]

\* render that shows the turn of the player who has just moved.
render_StaleTurn(s) ==
    LET d == [i \in Cells |-> s.gameOver \/ s.board[i] # Null]
        winner == getWinner(s.board)
    IN  IF winner # NoWinner
        THEN [s EXCEPT !.disabled = d,
                       !.winCells = {winner.line[1], winner.line[2], winner.line[3]},
                       !.statusText = WinsText(winner.player),
                       !.liveRegion = WinsText(winner.player),
                       !.gameOver = TRUE]
        ELSE IF isDraw(s.board)
        THEN [s EXCEPT !.disabled = d, !.winCells = {},
                       !.statusText = DrawText, !.liveRegion = DrawText,
                       !.gameOver = TRUE]
        ELSE [s EXCEPT !.disabled = d, !.winCells = {},
                       !.statusText = TurnText(IF s.currentPlayer = "X" THEN "O" ELSE "X")]

\* render: clears the win styles, sets each cell's disabled flag from the
\* gameOver it finds, then derives the outcome from the board.
render(s) ==
    LET d == [i \in Cells |-> s.gameOver \/ s.board[i] # Null]
        winner == getWinner(s.board)
    IN  IF winner # NoWinner
        THEN setFocus([s EXCEPT !.disabled = d,
                                !.winCells = {winner.line[1], winner.line[2], winner.line[3]},
                                !.statusText = WinsText(winner.player),
                                !.liveRegion = WinsText(winner.player),
                                !.gameOver = TRUE],
                      s.focusedIndex)
        ELSE IF isDraw(s.board)
        THEN setFocus([s EXCEPT !.disabled = d,
                                !.winCells = {},
                                !.statusText = DrawText,
                                !.liveRegion = DrawText,
                                !.gameOver = TRUE],
                      s.focusedIndex)
        ELSE [s EXCEPT !.disabled = d,
                       !.winCells = {},
                       !.statusText = TurnText(s.currentPlayer)]

\* attemptMove that places the mark without switching the player.
attemptMove_NoSwitch(s, index) ==
    IF s.gameOver THEN s
    ELSE IF BoardRead(s.board, index) # Null
    THEN [s EXCEPT !.liveRegion = MsgTaken]
    ELSE render([s EXCEPT !.board = [s.board EXCEPT ![index] = s.currentPlayer],
                          !.liveRegion = MsgPlaced(s.currentPlayer),
                          !.nMoves = s.nMoves + 1,
                          !.played = Off])

\* attemptMove without the occupied-cell check.
attemptMove_Overwrite(s, index) ==
    IF s.gameOver \/ index \notin Cells THEN s
    ELSE LET next == IF s.currentPlayer = "X" THEN "O" ELSE "X"
         IN  render([s EXCEPT !.board = [s.board EXCEPT ![index] = s.currentPlayer],
                              !.currentPlayer = next,
                              !.liveRegion = MsgPlaced(next),
                              !.nMoves = IF s.nMoves < 9 THEN s.nMoves + 1 ELSE 9,
                              !.played = Off])

\* attemptMove that switches the player before placing the mark.
attemptMove_SwitchFirst(s, index) ==
    IF s.gameOver THEN s
    ELSE IF BoardRead(s.board, index) # Null
    THEN [s EXCEPT !.liveRegion = MsgTaken]
    ELSE LET next == IF s.currentPlayer = "X" THEN "O" ELSE "X"
             q == Append(s.played, index)
         IN  render([s EXCEPT !.board = [s.board EXCEPT ![index] = next],
                              !.currentPlayer = next,
                              !.liveRegion = MsgPlaced(next),
                              !.nMoves = s.nMoves + 1,
                              !.played = IF s.played # Off /\ IsScriptPrefix(q)
                                         THEN q ELSE Off])

attemptMove(s, index) ==
    IF s.gameOver THEN s
    ELSE IF BoardRead(s.board, index) # Null
    THEN [s EXCEPT !.liveRegion = MsgTaken]
    ELSE LET next == IF s.currentPlayer = "X" THEN "O" ELSE "X"
             q == Append(s.played, index)
         IN  render([s EXCEPT !.board = [s.board EXCEPT ![index] = s.currentPlayer],
                              !.currentPlayer = next,
                              !.liveRegion = MsgPlaced(next),
                              !.nMoves = s.nMoves + 1,
                              !.played = IF s.played # Off /\ IsScriptPrefix(q)
                                         THEN q ELSE Off])

\* restartGame that keeps whose turn it was.
restartGame_KeepTurn(s) ==
    setFocus(render([s EXCEPT !.board = EmptyBoard,
                              !.gameOver = FALSE,
                              !.focusedIndex = 0,
                              !.statusText = TurnText("X"),
                              !.liveRegion = MsgNewGame,
                              !.nMoves = 0,
                              !.played = <<>>]),
             0)

\* restartGame that leaves gameOver as it was.
restartGame_KeepOver(s) ==
    setFocus(render([s EXCEPT !.board = EmptyBoard,
                              !.currentPlayer = "X",
                              !.focusedIndex = 0,
                              !.statusText = TurnText("X"),
                              !.liveRegion = MsgNewGame,
                              !.nMoves = 0,
                              !.played = <<>>]),
             0)

restartGame(s) ==
    setFocus(render([s EXCEPT !.board = EmptyBoard,
                              !.currentPlayer = "X",
                              !.gameOver = FALSE,
                              !.focusedIndex = 0,
                              !.statusText = TurnText("X"),
                              !.liveRegion = MsgNewGame,
                              !.nMoves = 0,
                              !.played = <<>>]),
             0)

\* The click listener without setFocus.
cellClick_NoFocus(s, i) ==
    IF s.gameOver THEN s
    ELSE attemptMove(s, i)

\* The click listener of cell i.
cellClick(s, i) ==
    IF s.gameOver THEN s
    ELSE attemptMove(setFocus(s, i), i)

Max(a, b) == IF a >= b THEN a ELSE b
Min(a, b) == IF a <= b THEN a ELSE b

\* The focus step without Math.max / Math.min.
focusStep_NoClamp(index, key) ==
    LET row == index \div 3
        col == index % 3
        newRow == IF key = "ArrowUp" THEN row - 1
                  ELSE IF key = "ArrowDown" THEN row + 1
                  ELSE row
        newCol == IF key = "ArrowLeft" THEN col - 1
                  ELSE IF key = "ArrowRight" THEN col + 1
                  ELSE col
    IN  newRow * 3 + newCol

\* The arrow branch of handleKeyDown: the index the focus moves to.
focusStep(index, key) ==
    LET row == index \div 3
        col == index % 3
        newRow == IF key = "ArrowUp" THEN Max(0, row - 1)
                  ELSE IF key = "ArrowDown" THEN Min(2, row + 1)
                  ELSE row
        newCol == IF key = "ArrowLeft" THEN Max(0, col - 1)
                  ELSE IF key = "ArrowRight" THEN Min(2, col + 1)
                  ELSE col
    IN  newRow * 3 + newCol

\* handleKeyDown that ignores every key once the game is over.
handleKeyDown_DeadWhenOver(s, key) ==
    IF s.gameOver THEN s
    ELSE IF key \in ArrowKeys THEN setFocus(s, focusStep(s.focusedIndex, key))
    ELSE IF key \in PlaceKeys THEN attemptMove(s, s.focusedIndex)
    ELSE s

\* handleKeyDown without the game-over branch of Enter/Space.
handleKeyDown_NoOverCheck(s, key) ==
    IF key \in ArrowKeys THEN setFocus(s, focusStep(s.focusedIndex, key))
    ELSE IF key \in PlaceKeys THEN attemptMove(s, s.focusedIndex)
    ELSE s

handleKeyDown(s, key) ==
    LET isArrow == key \in ArrowKeys
        isPlace == key \in PlaceKeys
    IN  IF ~isArrow /\ ~isPlace THEN s
        ELSE IF isArrow THEN setFocus(s, focusStep(s.focusedIndex, key))
        ELSE IF s.gameOver THEN [s EXCEPT !.liveRegion = MsgGameOver]
        ELSE attemptMove(s, s.focusedIndex)

\* ---------------------------------------------------------------- actions

\* The state once the script has run: createBoardUI, then restartGame().
Init ==
    /\ board = EmptyBoard
    /\ currentPlayer = "X"
    /\ gameOver = FALSE
    /\ focusedIndex = 0
    /\ statusText = TurnText("X")
    /\ liveRegion = MsgNewGame
    /\ disabled = [i \in Cells |-> FALSE]
    /\ winCells = {}
    /\ nMoves = 0
    /\ played = <<>>
    /\ lastEvent = "init"

\* A click event delivered to cell i.  Whether a click reaches a disabled
\* button depends on how it is dispatched; every cell is allowed here.
Click(i) ==
    /\ Set(cellClick(Cur, i))
    /\ lastEvent' = "click"

KeyDown(key) ==
    /\ Set(handleKeyDown(Cur, key))
    /\ lastEvent' = "keydown"

Restart ==
    /\ Set(restartGame(Cur))
    /\ lastEvent' = "restart"

\* attemptMove called on its own with an index that is not a cell.
Call(index) ==
    /\ Set(attemptMove(Cur, index))
    /\ lastEvent' = "call"

Next ==
    \/ \E i \in Cells : Click(i)
    \/ \E key \in Keys : KeyDown(key)
    \/ Restart

Spec == Init /\ [][Next]_vars

NextCall ==
    \/ Next
    \/ \E index \in OutsideIndices : Call(index)

SpecCall == Init /\ [][NextCall]_vars

\* render applied to a constructed board: any 9 cells over null, "X", "O".
AllBoards == [Cells -> Marks \cup {Null}]

InitEval ==
    /\ board \in AllBoards
    /\ currentPlayer \in Marks
    /\ gameOver = FALSE
    /\ focusedIndex = 0
    /\ statusText = TurnText("X")
    /\ liveRegion = MsgNewGame
    /\ disabled = [i \in Cells |-> FALSE]
    /\ winCells = {}
    /\ nMoves = 0
    /\ played = Off
    /\ lastEvent = "init"

Evaluate ==
    /\ Set(render(Cur))
    /\ lastEvent' = "render"

NextEval == Evaluate

SpecEval == InitEval /\ [][NextEval]_vars

TypeOK ==
    /\ board \in [Cells -> Marks \cup {Null}]
    /\ currentPlayer \in Marks
    /\ gameOver \in BOOLEAN
    /\ focusedIndex \in Cells
    /\ nMoves \in 0..9

\* ---------------------------------------------------------------- properties

Other(p) == IF p = "X" THEN "O" ELSE "X"
LineCells(k) == {WIN_LINES[k][1], WIN_LINES[k][2], WIN_LINES[k][3]}
LineIds == 1..Len(WIN_LINES)

\* All three cells of line k hold the mark m.
Holds(b, k, m) == \A i \in LineCells(k) : b[i] = m
Satisfied(b, k) == \E m \in Marks : Holds(b, k, m)
SatisfiedLines(b) == {k \in LineIds : Satisfied(b, k)}
Full(b) == \A i \in Cells : b[i] \in Marks

\* The step is the click handler of cell i / the keydown handler for key.
\* (The second conjunct of Clicked follows from the third; it is there to be
\* evaluated first.)
Clicked(i) ==
    /\ lastEvent' = "click"
    /\ gameOver \/ focusedIndex' = i
    /\ Cur' = cellClick(Cur, i)
Pressed(key) == lastEvent' = "keydown" /\ Cur' = handleKeyDown(Cur, key)

\* A move attempt at cell i: a click on it, or Enter/Space while it has the focus.
MoveAt(i) == Clicked(i) \/ (focusedIndex = i /\ \E key \in PlaceKeys : Pressed(key))

\* C1: after every handler the status agrees with the board: won (gameOver,
\* "<m> wins!") iff some win line holds three equal marks, and m is the mark
\* of such a line; draw (gameOver, "Draw!") iff the board is full and no line
\* is satisfied; in progress (gameOver false, "Turn: ...") otherwise.
C1_StatusAgreesWithBoard ==
    LET won == SatisfiedLines(board) # {}
        draw == Full(board) /\ ~won
    IN  /\ won <=> (gameOver /\ \E m \in Marks : statusText = WinsText(m))
        /\ \A m \in Marks : statusText = WinsText(m) => \E k \in LineIds : Holds(board, k, m)
        /\ draw <=> (gameOver /\ statusText = DrawText)
        /\ (~won /\ ~draw) <=> ~gameOver
        /\ ~gameOver => statusText = TurnText(currentPlayer)

C1_Witness == statusText = DrawText /\ gameOver /\ lastEvent = "click"

\* C2: a successful move at cell i sets exactly board[i] to the mark whose turn
\* it was, flips the turn and recomputes the status from the new board.
C2_SuccessfulMove ==
    [][\A i \in Cells :
         (~gameOver /\ board[i] = Null /\ MoveAt(i)) =>
            /\ board' = [board EXCEPT ![i] = currentPlayer]
            /\ currentPlayer' = Other(currentPlayer)
            /\ gameOver' = (SatisfiedLines(board') # {} \/ Full(board'))
            /\ statusText' = IF SatisfiedLines(board') # {} THEN WinsText(currentPlayer)
                             ELSE IF Full(board') THEN DrawText
                             ELSE TurnText(Other(currentPlayer))]_vars

C2_Witness == lastEvent = "keydown" /\ liveRegion = MsgPlaced("X") /\ nMoves = 2

\* A move attempt that fails, or an arrow key.
FailedOrFocus ==
    \/ \E i \in Cells : (gameOver \/ board[i] # Null) /\ MoveAt(i)
    \/ \E key \in ArrowKeys : Pressed(key)

\* C3: after n successful moves since the last (re)start the turn is X iff n
\* is even; failed attempts and focus navigation change neither n nor the turn.
C3_TurnAlternation ==
    /\ [](currentPlayer = "X" <=> nMoves % 2 = 0)
    /\ [][FailedOrFocus => (currentPlayer' = currentPlayer /\ nMoves' = nMoves)]_vars

C3_Witness == nMoves = 3 /\ currentPlayer = "O" /\ liveRegion = MsgTaken

\* C4: a move attempt on an occupied cell while the game is in progress leaves
\* board, turn and status unchanged and announces "That cell is already taken."
C4_OccupiedCell ==
    [][\A i \in Cells :
         (~gameOver /\ board[i] # Null /\ MoveAt(i)) =>
            /\ UNCHANGED <<board, currentPlayer, gameOver, statusText, nMoves>>
            /\ liveRegion' = MsgTaken]_vars

C4_Witness == ~gameOver /\ liveRegion = MsgTaken /\ lastEvent = "click"

\* C5 as stated: once the game is over every move attempt, by click or by
\* Enter/Space, leaves board, turn and status unchanged and is announced as
\* game over.
C5_Original ==
    [][\A i \in Cells :
         (gameOver /\ MoveAt(i)) =>
            /\ UNCHANGED <<board, currentPlayer, gameOver, statusText>>
            /\ liveRegion' = MsgGameOver]_vars

\* C5: once the game is over, a click on any cell changes nothing at all (no
\* announcement either), Enter/Space changes only the announcement, to the
\* game-over message, never to the occupied-cell one, and the game stays
\* over with the same board and status until a restart.
C5_TerminalUntilRestart ==
    [][/\ \A i \in Cells :
            (gameOver /\ Clicked(i)) => UNCHANGED Cur
       /\ \A key \in PlaceKeys :
            (gameOver /\ Pressed(key)) =>
               /\ UNCHANGED <<board, currentPlayer, gameOver, statusText, focusedIndex>>
               /\ liveRegion' = MsgGameOver
       /\ (gameOver /\ lastEvent' # "restart") =>
               /\ UNCHANGED <<board, currentPlayer, gameOver, statusText>>
               /\ liveRegion' # MsgTaken]_vars

C5_Witness == gameOver /\ liveRegion = MsgGameOver /\ lastEvent = "keydown"

Fresh ==
    /\ board = EmptyBoard
    /\ currentPlayer = "X"
    /\ gameOver = FALSE
    /\ focusedIndex = 0
    /\ statusText = TurnText("X")
    /\ liveRegion = MsgNewGame
    /\ disabled = [i \in Cells |-> FALSE]
    /\ winCells = {}
    /\ nMoves = 0

\* C6: a restart, from any reachable state, gives the fresh state (empty
\* board, turn X, not over, focus 0, "Turn: X"), and restarting twice gives
\* what restarting once gives.
C6_RestartFresh ==
    /\ [](restartGame(restartGame(Cur)) = restartGame(Cur))
    /\ [][lastEvent' = "restart" => Fresh']_vars

C6_Witness == Fresh /\ lastEvent = "restart"

\* The first satisfied line of b in WIN_LINES order.
FirstSatisfied(b) == CHOOSE j \in SatisfiedLines(b) : \A h \in SatisfiedLines(b) : j <= h

\* C7 as stated: a successful move that makes line k hold m three times ends
\* the game as won by m with winning line exactly k.
C7_Original ==
    [][\A i \in Cells :
         (~gameOver /\ board[i] = Null /\ MoveAt(i)) =>
            \A k \in LineIds : \A m \in Marks :
               (i \in LineCells(k) /\ Holds(board', k, m)) =>
                  /\ gameOver'
                  /\ statusText' = WinsText(m)
                  /\ winCells' = LineCells(k)]_vars

\* C7: a successful move that makes line k hold m three times ends the game
\* as won by m; the winning line shown is the first satisfied line in
\* WIN_LINES order, which is k whenever the move completed k alone.
C7_WinOnCompletedLine ==
    [][\A i \in Cells :
         (~gameOver /\ board[i] = Null /\ MoveAt(i)) =>
            \A k \in LineIds : \A m \in Marks :
               (i \in LineCells(k) /\ Holds(board', k, m)) =>
                  /\ gameOver'
                  /\ statusText' = WinsText(m)
                  /\ winCells' = LineCells(FirstSatisfied(board'))
                  /\ FirstSatisfied(board') <= k
                  /\ SatisfiedLines(board') = {k} => winCells' = LineCells(k)]_vars

C7_Witness == gameOver /\ statusText = WinsText("O") /\ winCells = {2, 4, 6}

\* C8 as stated: at most one win line is satisfied in any reachable board.
C8_Original == Cardinality(SatisfiedLines(board)) <= 1

\* C8: at most two win lines are satisfied in any reachable board; two
\* satisfied lines hold the same mark and cross in one cell (one move can
\* complete both).
C8_AtMostTwoLines ==
    LET S == SatisfiedLines(board)
    IN  /\ Cardinality(S) <= 2
        /\ \A j \in S : \A k \in S :
              j # k => /\ Cardinality(LineCells(j) \cap LineCells(k)) = 1
                       /\ board[WIN_LINES[j][1]] = board[WIN_LINES[k][1]]

C8_Witness == Cardinality(SatisfiedLines(board)) = 2 /\ gameOver

BoardOf(q) == [i \in Cells |-> q[i + 1]]
PrefixOf(q, s) == Len(q) <= Len(s) /\ SubSeq(s, 1, Len(q)) = q

\* C9 as stated: the moves 0,1,2,3,5,6,4,7,8 from a fresh game end in a draw
\* with board X O X / O O X / O X O.
C9_Original ==
    played = DrawScript =>
        /\ gameOver
        /\ statusText = DrawText
        /\ board = BoardOf(<<"X", "O", "X", "O", "O", "X", "O", "X", "O">>)

\* C9: the moves 0,1,2,3,5,6,4,7,8 from a fresh game are all successful; the
\* ninth (X at 8) completes [2,5,8] and [0,4,8], so the game ends won by X,
\* line [2,5,8] shown, with board X O X / O X X / O O X.
C9_ScriptEndsWonByX ==
    /\ (played # Off /\ PrefixOf(played, DrawScript) /\ Len(played) < 9) =>
          /\ nMoves = Len(played)
          /\ ~gameOver
          /\ board[DrawScript[Len(played) + 1]] = Null
    /\ played = DrawScript =>
          /\ nMoves = 9
          /\ gameOver
          /\ statusText = WinsText("X")
          /\ winCells = {2, 5, 8}
          /\ SatisfiedLines(board) = {6, 7}
          /\ board = BoardOf(<<"X", "O", "X", "O", "X", "X", "O", "O", "X">>)

C9_Witness == played = DrawScript

\* The step is attemptMove called with index.
Called(index) == lastEvent' = "call" /\ Cur' = attemptMove(Cur, index)

ClampedStep(index, key) ==
    LET row == index \div 3
        col == index % 3
    IN  IF key = "ArrowUp" THEN (IF row = 0 THEN index ELSE index - 3)
        ELSE IF key = "ArrowDown" THEN (IF row = 2 THEN index ELSE index + 3)
        ELSE IF key = "ArrowLeft" THEN (IF col = 0 THEN index ELSE index - 1)
        ELSE (IF col = 2 THEN index ELSE index + 1)

\* C11: from every focused index and for each arrow key the focus step is the
\* clamped transform: it stays in 0..8, keeps the column for Up/Down and the
\* row for Left/Right, moves by at most one row or column (no wrap), and at
\* the edge in the stepped direction returns the same index; the keydown
\* handler moves the focus exactly there.
C11_FocusStepClamps ==
    \A key \in ArrowKeys :
        LET n == focusStep(focusedIndex, key)
            row == focusedIndex \div 3
            col == focusedIndex % 3
        IN  /\ n \in Cells
            /\ n = ClampedStep(focusedIndex, key)
            /\ key \in {"ArrowUp", "ArrowDown"} =>
                  (n % 3 = col /\ (n \div 3) - row \in {-1, 0, 1})
            /\ key \in {"ArrowLeft", "ArrowRight"} =>
                  (n \div 3 = row /\ (n % 3) - col \in {-1, 0, 1})
            /\ (key = "ArrowUp" /\ row = 0) => n = focusedIndex
            /\ (key = "ArrowDown" /\ row = 2) => n = focusedIndex
            /\ (key = "ArrowLeft" /\ col = 0) => n = focusedIndex
            /\ (key = "ArrowRight" /\ col = 2) => n = focusedIndex
            /\ handleKeyDown(Cur, key).focusedIndex = n

C11_Witness == focusedIndex = 8 /\ nMoves = 0 /\ lastEvent = "keydown"

\* The enumeration order of the lines: rows, then columns, then diagonals.
ClaimedOrder ==
    << <<0, 1, 2>>, <<3, 4, 5>>, <<6, 7, 8>>,
       <<0, 3, 6>>, <<1, 4, 7>>, <<2, 5, 8>>,
       <<0, 4, 8>>, <<2, 4, 6>> >>
SatAt(b, L) == b[L[1]] \in Marks /\ b[L[1]] = b[L[2]] /\ b[L[2]] = b[L[3]]
SatIn(b) == {k \in 1..8 : SatAt(b, ClaimedOrder[k])}
FirstIn(b) == CHOOSE k \in SatIn(b) : \A h \in SatIn(b) : k <= h

\* C12: for every board over {null, X, O}, reachable by play or not,
\* getWinner gives the first satisfied line in the order rows, columns,
\* diagonals, with the mark in it; isDraw holds only when no line is
\* satisfied and no cell is empty; and render shows exactly that (win with
\* that line, draw, or the turn with gameOver left false).
C12_FirstLineInOrder ==
    LET S == SatIn(board)
        w == getWinner(board)
    IN  /\ S # {} =>
              /\ w = [player |-> board[ClaimedOrder[FirstIn(board)][1]],
                      line |-> ClaimedOrder[FirstIn(board)]]
              /\ ~isDraw(board)
        /\ S = {} => (w = NoWinner /\ (isDraw(board) <=> Full(board)))
        /\ lastEvent = "render" =>
              /\ S # {} =>
                    /\ gameOver
                    /\ statusText = WinsText(board[ClaimedOrder[FirstIn(board)][1]])
                    /\ winCells = {ClaimedOrder[FirstIn(board)][j] : j \in 1..3}
              /\ (S = {} /\ Full(board)) =>
                    (gameOver /\ statusText = DrawText /\ winCells = {})
              /\ (S = {} /\ ~Full(board)) =>
                    (~gameOver /\ statusText = TurnText(currentPlayer) /\ winCells = {})

C12_Witness ==
    /\ lastEvent = "render"
    /\ SatAt(board, <<0, 1, 2>>) /\ board[0] = "O"
    /\ SatAt(board, <<3, 4, 5>>) /\ board[3] = "X"
    /\ statusText = WinsText("O")
    /\ winCells = {0, 1, 2}

\* C13: a cell that holds a mark holds the same mark after every step that is
\* not a restart.
C13_MarksPersist ==
    [][lastEvent' # "restart" =>
          \A i \in Cells : board[i] \in Marks => board'[i] = board[i]]_vars

C13_Witness == nMoves = 5 /\ ~gameOver /\ liveRegion = MsgTaken /\ lastEvent = "keydown"

\* C14 as stated: the moves 0, 4, 1, 2 from a fresh game end won by X with
\* line [0,1,2], and a following move at 3 is rejected.
C14_Original ==
    /\ played = SubSeq(WinScript, 1, 4) =>
          (gameOver /\ statusText = WinsText("X") /\ winCells = {0, 1, 2})
    /\ played # WinScript

\* C14: the moves 0, 4, 1, 2 from a fresh game are all successful and
\* alternate X, O, X, O, so cell 2 holds O and the game is still in progress
\* with X to move (board X X O / _ O _ / _ _ _); a following move at 3
\* succeeds and places X there.
C14_ScriptStillInProgress ==
    /\ (played # Off /\ PrefixOf(played, WinScript) /\ Len(played) < 5) =>
          /\ nMoves = Len(played)
          /\ ~gameOver
          /\ board[WinScript[Len(played) + 1]] = Null
    /\ played = SubSeq(WinScript, 1, 4) =>
          /\ board = BoardOf(<<"X", "X", "O", Null, "O", Null, Null, Null, Null>>)
          /\ currentPlayer = "X"
          /\ statusText = TurnText("X")
          /\ winCells = {}
    /\ played = WinScript =>
          /\ board = BoardOf(<<"X", "X", "O", "X", "O", Null, Null, Null, Null>>)
          /\ ~gameOver
          /\ statusText = TurnText("O")

C14_Witness == played = WinScript

\* C15: in every state, game over or not, an arrow key moves the focus by the
\* clamped step and changes nothing else, and a key that is neither an arrow
\* nor Enter nor Space changes nothing at all.
C15_ArrowsIndependent ==
    /\ \A key \in ArrowKeys :
          handleKeyDown(Cur, key) =
             [Cur EXCEPT !.focusedIndex = ClampedStep(focusedIndex, key)]
    /\ \A key \in Keys \ (ArrowKeys \cup PlaceKeys) :
          handleKeyDown(Cur, key) = Cur

C15_Witness ==
    /\ gameOver
    /\ lastEvent = "keydown"
    /\ board[focusedIndex] = Null
    /\ liveRegion # MsgGameOver

\* The text the status line should show for board b with p to move.
DisplayedFor(b, p) ==
    IF SatisfiedLines(b) # {} THEN WinsText(b[WIN_LINES[FirstSatisfied(b)][1]])
    ELSE IF Full(b) THEN DrawText
    ELSE TurnText(p)

\* C16: after every handler the status text is "<winner> wins!" when a line
\* is satisfied, "Draw!" when the board is full without one, "Turn: <current
\* player>" otherwise; a restart shows "Turn: X" and a rejected move leaves
\* the text as it was.
C16_StatusTextMatches ==
    /\ statusText = DisplayedFor(board, currentPlayer)
    /\ \A m \in Marks : statusText = WinsText(m) => \E k \in LineIds : Holds(board, k, m)
    /\ restartGame(Cur).statusText = TurnText("X")
    /\ \A i \in Cells :
          (gameOver \/ board[i] # Null) =>
             /\ cellClick(Cur, i).statusText = statusText
             /\ \A key \in PlaceKeys :
                   handleKeyDown(setFocus(Cur, i), key).statusText = statusText

C16_Witness == statusText = TurnText("O") /\ liveRegion = MsgTaken /\ nMoves = 3

Count(m) == Cardinality({i \in Cells : board[i] = m})

\* C17: the number of X cells minus the number of O cells is 0 or 1, and the
\* current player is X exactly when the counts are equal.
C17_MarkCounts ==
    /\ Count("X") - Count("O") \in {0, 1}
    /\ currentPlayer = "X" <=> Count("X") = Count("O")
    /\ currentPlayer = "O" <=> Count("X") = Count("O") + 1

C17_Witness == Count("X") = 3 /\ Count("O") = 3 /\ currentPlayer = "X" /\ ~gameOver

\* C18: X and O never both hold a completed line, and when the game is won
\* the winner shown is the mark that is not the current player.
C18_WinnerMovedLast ==
    /\ ~(\E j \in LineIds : \E k \in LineIds : Holds(board, j, "X") /\ Holds(board, k, "O"))
    /\ \A m \in Marks :
          (\E k \in LineIds : Holds(board, k, m)) =>
             (gameOver /\ statusText = WinsText(m) /\ m = Other(currentPlayer))

C18_Witness == gameOver /\ statusText = WinsText("O") /\ currentPlayer = "X" /\ nMoves = 6

\* C19: the game is over after at most 9 successful moves and never before
\* the 5th; while it is in progress some cell is empty and a move on it
\* succeeds.
C19_GameEnds ==
    /\ nMoves \in 0..9
    /\ nMoves = Count("X") + Count("O")
    /\ gameOver => nMoves >= 5
    /\ nMoves = 9 => gameOver
    /\ ~gameOver =>
          \E i \in Cells : board[i] = Null /\ cellClick(Cur, i).nMoves = nMoves + 1

C19_Witness == nMoves = 5 /\ gameOver /\ statusText = WinsText("X")

\* C20: the focused index is always in 0..8; a restart sets it to 0; a click
\* on cell i while the game is in progress sets it to i; Enter/Space place at
\* the focused index, so attemptMove only ever gets an index in 0..8.
C20_FocusInRange ==
    /\ focusedIndex \in Cells
    /\ restartGame(Cur).focusedIndex = 0
    /\ ~gameOver =>
          /\ \A i \in Cells : cellClick(Cur, i).focusedIndex = i
          /\ \A i \in Cells : cellClick(Cur, i) = attemptMove(setFocus(Cur, i), i)
          /\ \A key \in PlaceKeys : handleKeyDown(Cur, key) = attemptMove(Cur, focusedIndex)

C20_Witness == lastEvent = "click" /\ focusedIndex = 7 /\ board[7] = "X" /\ nMoves = 1
====
